---- MODULE Spec2Model ----
(***************************************************************************)
(* Model of the on-demand module CDN (src/unnamed/part_002): the URL codec *)
(* (resolve_config_from_url / stringify_url_from_config), the subpath      *)
(* resolver (resolve_from_pkg), the installer (InstallQueue.add), the      *)
(* cache and the request orchestrator (compile_url).                       *)
(*                                                                         *)
(* A JavaScript string is modelled as a sequence of tokens.  A token is    *)
(* either a punctuation token (one of Punct) or a "word": a maximal run of *)
(* characters of the class [\w.-].  The regular expressions of the source  *)
(* are matched token by token; formatting builds token sequences and       *)
(* parsing takes them apart again.                                         *)
(***************************************************************************)
EXTENDS Integers, Sequences, FiniteSets, TLC

\* ------------------------------------------------------------------------
\* Strings as token sequences
\* ------------------------------------------------------------------------

\* Tokens that are not made of [\w.-] characters.
Punct ==
  {"/", "@", "!!", ":", ";", "?", "=", "&", ",", " ", "{", "}",
   "%3F", "%20", "%7B", "%7D"}

\* [\w.-]+
IsWord(t) == t \notin Punct

\* Words that contain a dot (so they are [\w.-]+ but not [\w-]+).
DottedWords ==
  {".", "..", "1.0.0", "4.2.0", "3.0.0", "0.9.0", "deps.js", "x.js", "y.js", "sibling.js", "empty.js", "index.js", "util.js", "nope.js", "main.js",
   "browser.js", "module.js", "entry.js", "real.js", "pre.1", "App.svelte",
   "util.mjs", "index.mjs"}

\* [\w-]+ : the scope of a scoped package name
IsScopeWord(t) == IsWord(t) /\ t \notin DottedWords

\* \d+\.\d+\.\d+(?:-[\w.-]+)? : an exact version
ExactVersionWords == {"1.0.0", "4.2.0", "2.0.0", "3.0.0", "0.9.0"}

IsExactVersion(t) == t \in ExactVersionWords

\* [\w./-]
IsPathTok(t) == IsWord(t) \/ t = "/"

\* JavaScript's undefined where a string may be absent.
UNDEF == <<"<undefined>">>

\* String(x) / `${x}` of a value that may be undefined
ToStr(s) == IF s = UNDEF THEN <<"undefined">> ELSE s

\* The one element of a singleton set.  Only({ e : x \in {v} }) is e with x
\* standing for the value of v, computed once.
Only(S) == CHOOSE r \in S : TRUE

\* every token of s from position i on is of the class [\w./-]
AllPathToks(s, i) == \A k \in i..Len(s) : IsPathTok(s[k])

RECURSIVE IndexOf(_, _, _)
\* position of the first occurrence of token t in s at or after i; 0 if none
IndexOf(str, t, from) ==
  Only({ IF i > Len(s) THEN 0
         ELSE IF s[i] = t THEN i
         ELSE IndexOf(s, t, i + 1) :
         s \in {str}, i \in {from} })

RECURSIVE SplitOn(_, _)
\* String.prototype.split(sep) for a one-token separator
SplitOn(str, sep) ==
  Only({ Only({ IF k = 0 THEN <<s>>
                ELSE <<SubSeq(s, 1, k - 1)>> \o SplitOn(SubSeq(s, k + 1, Len(s)), sep) :
                k \in {IndexOf(s, sep, 1)} }) :
         s \in {str} })

RECURSIVE JoinWith(_, _)
\* Array.prototype.join(sep)
JoinWith(list, sep) ==
  Only({ IF Len(parts) = 0 THEN <<>>
         ELSE IF Len(parts) = 1 THEN parts[1]
         ELSE parts[1] \o sep \o JoinWith(Tail(parts), sep) :
         parts \in {list} })

\* a + b of two strings: when a ends and b starts with word characters the
\* two tokens become one word
StrCat(left, right) ==
  Only({ IF Len(a) > 0 /\ Len(b) > 0 /\ IsWord(a[Len(a)]) /\ IsWord(b[1])
         THEN SubSeq(a, 1, Len(a) - 1) \o <<a[Len(a)] \o b[1]>> \o Tail(b)
         ELSE a \o b :
         a \in {left}, b \in {right} })

RECURSIVE Concat(_)
\* the concatenation of a sequence of strings
Concat(list) ==
  Only({ IF Len(parts) = 0 THEN <<>> ELSE StrCat(parts[1], Concat(Tail(parts))) :
         parts \in {list} })

RECURSIVE NormSegs(_, _)
\* path.normalize on the segments of a relative path: '' and '.' are
\* dropped, '..' removes the segment before it (or stays when there is none)
NormSegs(rest, done) ==
  Only({ IF Len(segs) = 0 THEN acc
         ELSE Only({ IF s = <<>> \/ s = <<".">> THEN NormSegs(Tail(segs), acc)
                     ELSE IF s = <<"..">>
                          THEN IF Len(acc) > 0 /\ acc[Len(acc)] # <<"..">>
                               THEN NormSegs(Tail(segs), SubSeq(acc, 1, Len(acc) - 1))
                               ELSE NormSegs(Tail(segs), acc \o <<s>>)
                          ELSE NormSegs(Tail(segs), acc \o <<s>>) :
                     s \in {segs[1]} }) :
         segs \in {rest}, acc \in {done} })

\* path.join(a, b) of node:path (posix) for relative a
PathJoin(a, b) ==
  Only({ Only({ IF Len(body) = 0 THEN <<".">>
                ELSE IF Len(joined) > 0 /\ joined[Len(joined)] = "/"
                THEN body \o <<"/">> ELSE body :
                body \in {JoinWith(NormSegs(SplitOn(joined, "/"), <<>>), <<"/">>)} }) :
         joined \in {Only({ IF Len(x) = 0 THEN y
                            ELSE IF Len(y) = 0 THEN x
                            ELSE x \o <<"/">> \o y :
                            x \in {a}, y \in {b} })} })

\* ------------------------------------------------------------------------
\* The registry and the installed files (the environment of the service)
\* ------------------------------------------------------------------------

\* the empty object {}
EmptyMap == [k \in {} |-> <<>>]

\* the value false of a `browser` map entry
FALSEVAL == <<"<false>">>

\* A manifest with no entry field at all; the fields a manifest omits stay
\* as they are here.
BareManifest(n, v) ==
  [name |-> n, version |-> v, svelte |-> UNDEF,
   hasExports |-> FALSE, exports |-> EmptyMap,
   browserKind |-> "none", browserStr |-> UNDEF, browserMap |-> EmptyMap,
   module |-> UNDEF, main |-> UNDEF,
   dependencies |-> EmptyMap, devDependencies |-> EmptyMap,
   peerDependencies |-> EmptyMap]

\* what the registry answers for a package it does not have
NotFoundManifest == BareManifest(UNDEF, UNDEF)

\* The manifest shapes package `a` is published with.
ManifestShapes ==
  {"main", "exports", "exportsChain", "exportsSub", "exportsSubMain", "module",
   "browserString", "browserMap", "browserFalse", "svelte", "none"}

ManifestA(shape) ==
  LET base == [BareManifest(<<"a">>, <<"1.0.0">>) EXCEPT
                 !.dependencies = (<<"b">> :> <<"1.0.0">>)]
  IN CASE shape = "main" -> [base EXCEPT !.main = <<"index.js">>]
       [] shape = "exports" ->
            [base EXCEPT !.hasExports = TRUE,
                         !.exports = (<<".">> :> <<".", "/", "index.js">>),
                         !.main = <<"main.js">>]
       [] shape = "exportsChain" ->
            [base EXCEPT !.hasExports = TRUE,
                         !.exports = (<<".">> :> <<".", "/", "index.js">>)
                                     @@ (<<".", "/", "index.js">> :>
                                           <<".", "/", "real.js">>)]
       [] shape = "exportsSub" ->
            [base EXCEPT !.hasExports = TRUE,
                         !.exports = (<<".", "/", "util">> :> <<".", "/", "util.js">>)]
       [] shape = "exportsSubMain" ->
            [base EXCEPT !.hasExports = TRUE,
                         !.exports = (<<".", "/", "util">> :> <<".", "/", "util.js">>),
                         !.main = <<"index.js">>]
       [] shape = "module" ->
            [base EXCEPT !.module = <<".", "/", "module.js">>,
                         !.main = <<"main.js">>]
       [] shape = "browserString" ->
            [base EXCEPT !.browserKind = "string",
                         !.browserStr = <<"browser.js">>,
                         !.main = <<"main.js">>]
       [] shape = "browserMap" ->
            [base EXCEPT !.browserKind = "object",
                         !.browserMap = (<<".", "/", "util.js">> :>
                                           <<".", "/", "browser.js">>),
                         !.main = <<"index.js">>]
       [] shape = "browserFalse" ->
            [base EXCEPT !.browserKind = "object",
                         !.browserMap = (<<".">> :> FALSEVAL),
                         !.main = <<"index.js">>]
       [] shape = "svelte" ->
            [base EXCEPT !.svelte = <<".", "/", "App.svelte">>,
                         !.main = <<"index.js">>]
       [] OTHER -> base

ManifestB == [BareManifest(<<"b">>, <<"1.0.0">>) EXCEPT !.main = <<"index.js">>]

ManifestSvelte ==
  [BareManifest(<<"svelte">>, <<"4.2.0">>) EXCEPT !.main = <<"index.js">>]

\* the packages the registry has, each in one version
KnownNames == {<<"a">>, <<"b">>, <<"svelte">>}

KnownVersion(n) ==
  CASE n = <<"a">> -> <<"1.0.0">>
    [] n = <<"b">> -> <<"1.0.0">>
    [] n = <<"svelte">> -> <<"4.2.0">>

\* the versions of n the registry has beside KnownVersion(n)
OlderVersions(n) == IF n = <<"b">> THEN {<<"0.9.0">>} ELSE {}

VersionsOf(n) == {KnownVersion(n)} \cup OlderVersions(n)

\* the (name, version) pairs the registry has
Published == UNION { { <<k, v>> : v \in VersionsOf(k) } : k \in KnownNames }

\* the ranges that select the older version v
OlderRanges(v) == {v, <<"0">>}

\* the ranges and dist-tags that select the version KnownVersion(n)
RangesOf(n) ==
  {<<"latest">>, KnownVersion(n)} \cup
  (IF n = <<"svelte">> THEN {<<"4">>} ELSE {<<"1">>})

\* the files an installed copy of a package holds, relative to its root
FilesOf(n) ==
  CASE n = <<"a">> ->
         {<<"index.js">>, <<"util.js">>, <<"real.js">>, <<"main.js">>,
          <<"module.js">>, <<"browser.js">>, <<"App.svelte">>,
          <<"x.js">>, <<"y.js">>, <<"sibling.js">>, <<"empty.js">>, <<"deps.js">>}
    [] n = <<"b">> -> {<<"index.js">>}
    [] n = <<"svelte">> -> {<<"index.js">>}
    [] OTHER -> {}

\* the module specifiers of the import and export nodes of a file, in
\* source order
SpecifiersOf(n, file) ==
  CASE n = <<"a">> /\ file \in {<<"index.js">>, <<"App.svelte">>} ->
         << <<".", "/", "util.js">>, <<"b">> >>
    [] n = <<"a">> /\ file = <<"x.js">> -> << <<".", "/", "y.js">> >>
    [] n = <<"a">> /\ file = <<"y.js">> -> << <<".", "/", "x.js">> >>
    [] n = <<"a">> /\ file = <<"deps.js">> -> << <<"b">>, <<"svelte">> >>
    [] n = <<"a">> /\ file = <<"sibling.js">> -> << <<"..", "/", "b", "/", "index.js">> >>
    [] OTHER -> <<>>

\* packages/<name>@<version>
ProjId(n, v) == ToStr(n) \o <<"@">> \o ToStr(v)

\* the packages that `bun install` puts under packages/<proj>/node_modules
InstalledWith(n) ==
  IF n = <<"a">> THEN {<<"a">>, <<"b">>} ELSE {n}

\* ------------------------------------------------------------------------
\* The subpath resolver
\* ------------------------------------------------------------------------

\* value.replace(/^\.?\//, '') prefixed with './' (resolve.legacy's result
\* for a string field)
DotSlash(v) ==
  LET stripped == IF Len(v) >= 2 /\ v[1] = "." /\ v[2] = "/" THEN SubSeq(v, 3, Len(v))
                  ELSE IF Len(v) >= 1 /\ v[1] = "/" THEN Tail(v)
                  ELSE v
  IN <<".", "/">> \o stripped

\* toEntry(name, ident, externals) of resolve.exports
ToEntry(n, ident, externals) ==
  LET root == n \o <<"/">>
      bool == Len(ident) >= Len(root) /\ SubSeq(ident, 1, Len(root)) = root
      out  == IF bool THEN SubSeq(ident, Len(root) + 1, Len(ident)) ELSE ident
      dot  == Len(out) >= 2 /\ out[1] = "." /\ out[2] = "/"
  IN IF ident = n \/ ident = <<".">> THEN <<".">>
     ELSE IF bool \/ ~externals
          THEN (IF dot THEN out ELSE <<".", "/">> \o out)
          ELSE out

\* resolve.exports(pkg, subpath, {browser, conditions}): the first target of
\* the entry, or a throw when the map has no such entry
ResolveExports(pkg, subpath) ==
  Only({ IF entry \in DOMAIN pkg.exports
         THEN [threw |-> FALSE, target |-> pkg.exports[entry]]
         ELSE [threw |-> TRUE, target |-> UNDEF] :
         entry \in {ToEntry(pkg.name, IF subpath = <<>> THEN <<".">> ELSE subpath,
                            FALSE)} })

\* pkg[field] for the legacy entry fields
FieldKind(pkg, f) ==
  CASE f = "browser" -> pkg.browserKind
    [] f = "module" -> IF pkg.module = UNDEF \/ pkg.module = <<>> THEN "none" ELSE "string"
    [] f = "main" -> IF pkg.main = UNDEF \/ pkg.main = <<>> THEN "none" ELSE "string"

FieldStr(pkg, f) ==
  CASE f = "browser" -> pkg.browserStr
    [] f = "module" -> pkg.module
    [] f = "main" -> pkg.main

RECURSIVE ResolveLegacy(_, _)
\* resolve.legacy(pkg, {fields}): the first field that is set; a string is
\* returned with a './' prefix, an object-form `browser` as the object
ResolveLegacy(pkg, fields) ==
  IF Len(fields) = 0 THEN [kind |-> "undefined", str |-> UNDEF]
  ELSE LET f == fields[1]
           k == FieldKind(pkg, f)
       IN IF k = "string" THEN [kind |-> "string", str |-> DotSlash(FieldStr(pkg, f))]
          ELSE IF k = "object" THEN [kind |-> "object", str |-> UNDEF]
          ELSE ResolveLegacy(pkg, Tail(fields))

\* resolve.legacy(pkg, {browser: subpath}) for an object-form `browser`
ResolveLegacyBrowser(pkg, subpath) ==
  Only({ IF entry \notin DOMAIN pkg.browserMap THEN entry
         ELSE IF pkg.browserMap[entry] = FALSEVAL THEN <<"false">>
         ELSE DotSlash(pkg.browserMap[entry]) :
         entry \in {ToEntry(pkg.name, subpath, TRUE)} })

\* 'data:text/javascript,export {}'
EmptyModuleURL ==
  <<"data", ":", "text", "/", "javascript", ",", "export", " ", "{", "}">>

\* path.join(folder, 'node_modules', name) with folder = ./packages/<proj>
BaseOf(proj, n) ==
  PathJoin(<<".", "/", "packages", "/">> \o proj, <<"node_modules", "/">> \o ToStr(n))

\* the regular files on disk, given the set of project directories whose
\* installation has completed
FsFiles(inst) ==
  UNION { UNION { { BaseOf(proj, m) \o <<"/">> \o f :
                      f \in FilesOf(m) } : m \in InstalledWith(n) } :
          <<n, proj>> \in { <<nv[1], ProjId(nv[1], nv[2])>> :
                            nv \in { x \in Published : ProjId(x[1], x[2]) \in inst } } }

\* stat(p) succeeds and is not a directory
IsFile(path, inst) ==
  \E p \in {path} :
    /\ Len(p) > 0
    /\ p[Len(p)] # "/"
    /\ PathJoin(p, <<>>) \in FsFiles(inst)

IndexFiles == << <<>>, <<".mjs">>, <<".js">>, <<"/", "index.mjs">>, <<"/", "index.js">> >>

\* path.join(pkg_url_base, subpath) + index_file
Probe(base, subpath, suffix) == StrCat(PathJoin(base, subpath), suffix)

RECURSIVE ProbeFrom(_, _, _, _)
\* the loop over the index files: the first candidate that is a file, as
\* '.' + indexUrl.replace(pkg_url_base, ''); UNDEF when none is
ProbeFrom(pkg_url_base, subpath, i, inst) ==
  IF i > Len(IndexFiles) THEN UNDEF
  ELSE Only({ IF IsFile(joined, inst)
              THEN (IF Len(joined) >= Len(base) /\ SubSeq(joined, 1, Len(base)) = base
                    THEN StrCat(<<".">>, SubSeq(joined, Len(base) + 1, Len(joined)))
                    ELSE StrCat(<<".">>, joined))
              ELSE ProbeFrom(base, subpath, i + 1, inst) :
              base \in {pkg_url_base},
              joined \in {Probe(pkg_url_base, subpath, IndexFiles[i])} })

\* resolve_from_pkg(pkg, subpath, pkg_url_base): a string, or UNDEF where the
\* source returns undefined
resolve_from_pkg(pkg, subpath, base, inst) ==
  LET dotKey == IF <<".">> \in DOMAIN pkg.browserMap THEN pkg.browserMap[<<".">>] ELSE UNDEF
  IN Only({ IF pkg.svelte # UNDEF /\ subpath = <<".">> THEN pkg.svelte
            ELSE IF pkg.hasExports /\ ~ex.threw THEN ex.target
            ELSE IF subpath = <<".">>
                 THEN (IF legacy.kind = "object"
                       THEN (IF dotKey = FALSEVAL THEN EmptyModuleURL
                             ELSE IF dotKey # UNDEF THEN dotKey
                             ELSE ResolveLegacy(pkg, <<"module", "main">>).str)
                       ELSE legacy.str)
            ELSE IF probed # UNDEF THEN probed
            ELSE IF pkg.browserKind = "object" THEN ResolveLegacyBrowser(pkg, subpath)
            ELSE subpath :
            ex \in {ResolveExports(pkg, subpath)},
            legacy \in {ResolveLegacy(pkg, <<"browser", "module", "main">>)},
            probed \in {ProbeFrom(base, subpath, 1, inst)} })

\* ------------------------------------------------------------------------
\* The URL codec
\* ------------------------------------------------------------------------
\* A URL is [pathname, query]; the query is the list of its (key, value)
\* pairs.  Keys and values are words, which the URL serializers leave as
\* they are.

BUILD_VERSION == <<"pre.1">>

reserved_flags == <<"svelte", "metadata">>

flag_aliases == [svelte |-> <<"s">>, metadata |-> <<"md">>]

Registries == {"npm", "github"}

\* the end of (?<name>(?:@[\w-]+\/)?[\w.-]+) matched at position i: the
\* position after the name, 0 when there is no name at i
NameEnd(p, i) ==
  IF i > Len(p) THEN 0
  ELSE IF p[i] = "@"
       THEN (IF i + 3 <= Len(p) /\ IsScopeWord(p[i + 1]) /\ p[i + 2] = "/"
                /\ IsWord(p[i + 3])
             THEN i + 4 ELSE 0)
  ELSE IF IsWord(p[i]) THEN i + 1
  ELSE 0

NoMatch == [ok |-> FALSE, processed |-> FALSE, registry |-> UNDEF,
            name |-> UNDEF, version |-> UNDEF, extra |-> UNDEF]

\* /^\/?(?<registry>npm|github)\/ at the head of a pathname
RegistryOk(p) == Len(p) >= 3 /\ p[1] = "/" /\ p[2] \in Registries /\ p[3] = "/"

\* URL_REGEX.exec(pathname).  A pathname starts with '/', which no name
\* does, so the registry group always takes part in a match.
URL_REGEX(p) ==
  Only({ Only({ IF j # 0 /\ AllPathToks(p, l)
                THEN [ok |-> TRUE, processed |-> FALSE, registry |-> <<p[2]>>,
                      name |-> SubSeq(p, 4, j - 1),
                      version |-> IF k > j THEN <<p[j + 1]>> ELSE UNDEF,
                      extra |-> IF l <= Len(p) THEN SubSeq(p, l, Len(p)) ELSE UNDEF]
                ELSE NoMatch :
                l \in {IF k # 0 /\ k <= Len(p) /\ p[k] = "/" THEN k + 1 ELSE k} }) :
         j \in {IF RegistryOk(p) THEN NameEnd(p, 4) ELSE 0},
         k \in {IF RegistryOk(p)
                THEN Only({ IF j # 0 /\ j + 1 <= Len(p) /\ p[j] = "@" /\ IsWord(p[j + 1])
                            THEN j + 2 ELSE j : j \in {NameEnd(p, 4)} })
                ELSE 0} })

RECURSIVE PathRunEnd(_, _)
\* the position after the longest run of [\w./-] from position i
PathRunEnd(p, i) ==
  IF i <= Len(p) /\ IsPathTok(p[i]) THEN PathRunEnd(p, i + 1) ELSE i

\* PROCESSED_URL_REGEX.exec(pathname)
PROCESSED_URL_REGEX(p) ==
  Only({ IF j # 0 /\ j + 2 <= Len(p) /\ p[j] = "@" /\ IsExactVersion(p[j + 1])
            /\ p[j + 2] = "/"
         THEN Only({ IF e > j + 3 /\ e + 2 <= Len(p) /\ p[e] = "!!"
                        /\ p[e + 1] = "cdnv" /\ p[e + 2] = ":"
                     THEN [ok |-> TRUE, processed |-> TRUE, registry |-> <<p[2]>>,
                           name |-> SubSeq(p, 4, j - 1), version |-> <<p[j + 1]>>,
                           extra |-> SubSeq(p, j + 3, e - 1)]
                     ELSE NoMatch :
                     e \in {PathRunEnd(p, j + 3)} })
         ELSE NoMatch :
         j \in {IF RegistryOk(p) THEN NameEnd(p, 4) ELSE 0} })

\* The flags object is the list of its (key, value) entries in insertion
\* order, the order Object.entries gives them in.
NoFlags == <<>>

\* key in flags
HasFlag(flags, key) == \E i \in 1..Len(flags) : flags[i][1] = key

\* flags[key], UNDEF when the key is not there
GetFlag(flags, key) ==
  IF HasFlag(flags, key)
  THEN flags[CHOOSE i \in 1..Len(flags) : flags[i][1] = key][2]
  ELSE UNDEF

\* flags[key] = val: an existing key keeps its place
PutFlag(flags, key, val) ==
  IF HasFlag(flags, key)
  THEN [i \in 1..Len(flags) |-> IF flags[i][1] = key THEN <<key, val>> ELSE flags[i]]
  ELSE Append(flags, <<key, val>>)

\* delete flags[key]
DelFlag(flags, key) == SelectSeq(flags, LAMBDA kv : kv[1] # key)

\* one entry of the !! tail: the key is what stands before the first ':',
\* the value the rest with the ':' removed, undefined when there is no ':'
ApplyOption(flags, option) ==
  Only({ IF parts[1] = <<"cdnv">> THEN flags
         ELSE IF parts[1] = flag_aliases.svelte
              THEN PutFlag(flags, "svelte",
                           IF Len(parts) = 1 THEN UNDEF ELSE Concat(Tail(parts)))
         ELSE IF parts[1] = flag_aliases.metadata
              THEN PutFlag(flags, "metadata",
                           IF Len(parts) = 1 THEN UNDEF ELSE Concat(Tail(parts)))
         ELSE flags :
         parts \in {SplitOn(option, ":")} })

RECURSIVE ApplyOptions(_, _)
ApplyOptions(flags, options) ==
  IF Len(options) = 0 THEN flags
  ELSE ApplyOptions(ApplyOption(flags, options[1]), Tail(options))

\* url.pathname.split('!!')[1].split(';'), folded into the flags
TailFlags(p) == ApplyOptions(NoFlags, SplitOn(SplitOn(p, "!!")[2], ";"))

RECURSIVE QueryGet(_, _)
\* searchParams.get(key): the first value, UNDEF for null
QueryGet(q, key) ==
  IF Len(q) = 0 THEN UNDEF
  ELSE IF q[1][1] = key THEN q[1][2]
  ELSE QueryGet(Tail(q), key)

\* searchParams.has(key)
QueryHas(q, key) == \E i \in 1..Len(q) : q[i][1] = key

\* searchParams.delete(key)
QueryDelete(q, key) == SelectSeq(q, LAMBDA kv : kv[1] # key)

RECURSIVE QueryStr(_)
QueryStr(q) ==
  IF Len(q) = 0 THEN <<>>
  ELSE q[1][1] \o <<"=">> \o q[1][2] \o
       (IF Len(q) = 1 THEN <<>> ELSE <<"&">> \o QueryStr(Tail(q)))

\* url.search
Search(q) == IF Len(q) = 0 THEN <<>> ELSE <<"?">> \o QueryStr(q)

\* words that contain `false`, `0` or `null`
FalsyWords == {"0", "false", "null", "1.0.0", "4.2.0", "2.0.0", "3.0.0", "0.9.0"}

\* /(false|0|null)/.test(v)
MetadataOff(v) == \E i \in 1..Len(v) : v[i] \in FalsyWords

\* pathname.endsWith('.svelte')
SvelteFiles == {"App.svelte"}

EndsWithSvelte(p) == Len(p) > 0 /\ p[Len(p)] \in SvelteFiles

\* pacote.manifest(`${name}@${range}`) against the registry: the version the
\* range selects, or a throw
PacoteManifest(n, range) ==
  IF n \in KnownNames /\ range \in RangesOf(n)
  THEN [ok |-> TRUE, version |-> KnownVersion(n)]
  ELSE IF n \in KnownNames /\ \E v \in OlderVersions(n) : range \in OlderRanges(v)
  THEN [ok |-> TRUE, version |-> CHOOSE v \in OlderVersions(n) : range \in OlderRanges(v)]
  ELSE [ok |-> FALSE, version |-> UNDEF]

\* fetch_package_info(name, version) against the registry reg
fetch_package_info(reg, n, v) ==
  IF n \in KnownNames /\ v = KnownVersion(n) THEN reg[n[1]]
  ELSE IF n \in KnownNames /\ v \in OlderVersions(n) THEN [reg[n[1]] EXCEPT !.version = v]
  ELSE NotFoundManifest

Failed == [ok |-> FALSE]

\* a value is truthy as a JavaScript string
Truthy(v) == v # UNDEF /\ v # <<>>

\* the match the decoding works from: PROCESSED_URL_REGEX when it matches,
\* else URL_REGEX (whose failure leaves every group undefined)
MatchURL(p) ==
  Only({ IF m.ok THEN m ELSE URL_REGEX(p) : m \in {PROCESSED_URL_REGEX(p)} })

\* the svelte flag of a path that is not canonical yet: the version the
\* registry resolves `svelte@<flag or 4>` to.  ok is FALSE when that throws.
SvelteVersionFlag(url) ==
  Only({ IF EndsWithSvelte(url.pathname) \/ Truthy(sflag)
         THEN Only({ IF sv.ok
                     THEN [ok |-> TRUE, flags |-> PutFlag(NoFlags, "svelte", sv.version)]
                     ELSE [ok |-> FALSE, flags |-> NoFlags] :
                     sv \in {PacoteManifest(<<"svelte">>,
                                 IF Truthy(sflag) THEN sflag ELSE <<"4">>)} })
         ELSE [ok |-> TRUE, flags |-> NoFlags] :
         sflag \in {QueryGet(url.query, <<"svelte">>)} })

\* the metadata flag: set by the presence of the query key, removed again
\* when its value holds false, 0 or null
MetadataFlag(url, flags) ==
  IF QueryHas(url.query, <<"metadata">>)
  THEN Only({ IF mval # <<>> /\ MetadataOff(mval)
              THEN DelFlag(flags, "metadata")
              ELSE PutFlag(flags, "metadata", <<"1">>) :
              mval \in {QueryGet(url.query, <<"metadata">>)} })
  ELSE flags

\* the flags of the config: from the !! tail of a canonical path, else from
\* the query
FlagsOf(url, processed) ==
  Only({ [ok |-> f.ok, flags |-> MetadataFlag(url, f.flags)] :
         f \in {IF processed THEN [ok |-> TRUE, flags |-> TailFlags(url.pathname)]
                ELSE SvelteVersionFlag(url)} })

\* the config of a decoded URL whose version and manifest are known
ConfigOf(url, m, flags, final, pkg, inst) ==
  [ok |-> TRUE,
   registry |-> IF m.registry = UNDEF THEN <<"npm">> ELSE m.registry,
   name |-> ToStr(m.name), version |-> final,
   subpath |-> ToStr(resolve_from_pkg(pkg,
                  IF m.extra = UNDEF THEN <<".">> ELSE m.extra,
                  BaseOf(ProjId(pkg.name, pkg.version), m.name), inst)),
   url |-> url, package_json |-> pkg,
   proj_id |-> ProjId(pkg.name, pkg.version), flags |-> flags]

\* resolve_config_from_url(url), with the registry reg and the project
\* directories inst whose installation has completed.  [ok |-> FALSE] stands
\* for a throw (a registry lookup that fails).
resolve_config_from_url(request_url, reg, inst) ==
  Only({ Only({ IF ~fl.ok \/ ~pm.ok THEN Failed
                ELSE Only({ ConfigOf(url, m, fl.flags, pm.version, pkg, inst) :
                            pkg \in {fetch_package_info(reg, ToStr(m.name), pm.version)} }) :
                fl \in {FlagsOf(url, m.processed)},
                pm \in {IF m.processed THEN [ok |-> TRUE, version |-> m.version]
                        ELSE PacoteManifest(ToStr(m.name),
                               IF m.version = UNDEF THEN <<"latest">> ELSE m.version)} }) :
         <<url, m>> \in {<<u, MatchURL(u.pathname)>> : u \in {request_url}} })

\* what resolve_config_from_url passes to pacote.manifest at line 157 for
\* url: `${name}@${semversion}`, when the execution gets there
ManifestLookup(url) ==
  Only({ IF ~m.processed /\ SvelteVersionFlag(url).ok
         THEN { ToStr(m.name) \o <<"@">>
                  \o (IF m.version = UNDEF THEN <<"latest">> ELSE m.version) }
         ELSE {} :
         m \in {MatchURL(url.pathname)} })

\* the pathname setter: the characters a path cannot hold are percent-encoded
PathEncode(t) ==
  CASE t = "?" -> "%3F"
    [] t = " " -> "%20"
    [] t = "{" -> "%7B"
    [] t = "}" -> "%7D"
    [] OTHER -> t

EncodePath(p) == [i \in 1..Len(p) |-> PathEncode(p[i])]

\* the alias of a reserved flag
AliasOf(key) == IF key = "svelte" THEN flag_aliases.svelte ELSE flag_aliases.metadata

\* flag_str_arr: `alias:value` for each entry of the flags, in their order
FlagStrArr(flags) ==
  [i \in 1..Len(flags) |-> AliasOf(flags[i][1]) \o <<":">> \o ToStr(flags[i][2])]

\* the default order of Array.prototype.toSorted on two of these strings:
\* their first characters decide, and 'm' comes before 's'
SortsBefore(x, y) == x[1] = "md" /\ y[1] = "s"

RECURSIVE Insert(_, _)
\* x put in its place in the sorted list xs
Insert(xs, x) ==
  IF Len(xs) = 0 THEN <<x>>
  ELSE IF SortsBefore(x, xs[1]) THEN <<x>> \o xs
  ELSE <<xs[1]>> \o Insert(Tail(xs), x)

RECURSIVE Sorted(_, _)
Sorted(xs, acc) ==
  IF Len(xs) = 0 THEN acc ELSE Sorted(Tail(xs), Insert(acc, xs[1]))

\* the array left in the order of its entries
Unsorted(arr) == arr

\* arr.toSorted()
ToSorted(arr) == Sorted(arr, <<>>)

\* stringify_url_from_config(config)
stringify_url_from_config(cfg) ==
  Only({ Only({ [pathname |->
                   EncodePath(<<"/">> \o config.registry \o <<"/">>
                     \o PathJoin(config.name \o <<"@">> \o config.version, config.subpath)
                     \o Search(q))
                   \o <<"!!", "cdnv", ":">> \o BUILD_VERSION \o <<";">>
                   \o JoinWith(ToSorted(FlagStrArr(config.flags)), <<";">>),
                 query |-> q] :
                q \in {QueryDelete(QueryDelete(config.url.query, <<reserved_flags[1]>>),
                                   <<reserved_flags[2]>>)} }) :
         config \in {cfg} })

\* ------------------------------------------------------------------------
\* The service: requests running compile_url concurrently
\* ------------------------------------------------------------------------

\* Bounds of the model.
NProc == 3

MaxUser == 2

MaxFaults == 1

VARIABLES
  registry,      \* the manifests the registry serves (fixed)
  installed,     \* project directories holding a lockfile (install completed)
  dirs,          \* project directories that exist (mkdir)
  cache,         \* the cache table: pathname -> stored body
  current_urls,  \* the process-wide in-flight set
  procs,         \* the compile_url calls: one record per call
  nprocs,        \* number of compile_url calls started so far
  nusers,        \* number of user-originated requests so far
  noops,         \* follow-up URLs answered 204 on entry
  faults         \* environment failures injected so far

vars == <<registry, installed, dirs, cache, current_urls, procs, nprocs,
          nusers, noops, faults>>

Procs == 1..NProc

NoURL == [pathname |-> <<>>, query |-> <<>>]

NoBody == [src |-> <<>>, compiled |-> FALSE, rewritten |-> FALSE, specs |-> <<>>]

NoDep == [name |-> <<>>, version |-> <<>>]

IdleProc ==
  [pc |-> "idle", url |-> NoURL, follow_up |-> FALSE,
   config |-> Failed, resolved |-> NoURL,
   inst |-> NoDep, body |-> NoBody, i |-> 0, outs |-> <<>>, fetch |-> <<>>,
   final_path |-> <<>>, failed |-> FALSE, wrote |-> FALSE,
   outcome |-> "none", status |-> 0, location |-> NoURL]

Url(p, q) == [pathname |-> p, query |-> q]

\* The requests users send.
RequestURLs ==
  { Url(<<"/", "npm", "/", "a">>, <<>>),
    Url(<<"/", "npm", "/", "a", "@", "1.0.0", "/", "index.js",
          "!!", "cdnv", ":", "pre.1", ";">>, <<>>),
    Url(<<"/", "npm", "/", "a", "@", "1.0.0", "/", "index.js",
          "!!", "cdnv", ":", "pre.1", ";">>,
        << << <<"metadata">>, <<"0">> >> >>),
    Url(<<"/", "npm", "/", "a", "@", "1.0.0", "/", "util">>, <<>>),
    Url(<<"/", "npm", "/", "a", "@", "1.0.0", "/", "nope.js",
          "!!", "cdnv", ":", "pre.1", ";">>, <<>>) }

Init ==
  /\ registry = [a |-> ManifestA("main"), b |-> ManifestB, svelte |-> ManifestSvelte]
  /\ installed = {}
  /\ dirs = {}
  /\ cache = EmptyMap
  /\ current_urls = {}
  /\ procs = [p \in Procs |-> IdleProc]
  /\ nprocs = 0
  /\ nusers = 0
  /\ noops = {}
  /\ faults = 0

\* the project directories a `bun install` is writing right now
Installing == { ProjId(procs[p].inst.name, procs[p].inst.version) :
                  p \in { q \in Procs : procs[q].pc = "installing" } }

\* What a stat may see: the completed installs, and any part of the trees
\* an install in progress is writing at that moment.
Visible == { installed \cup s : s \in SUBSET (Installing \ installed) }

\* the test with the flag of the caller left out
InFlightForAnyCaller(url, cur, follow_up) == url \in cur

\* compile_url, line 283: current_urls.has(request.url) && follow_up
NonOperational(url, cur, follow_up) == url \in cur /\ follow_up

\* the route handler: app.get('/*', ({request}) => compile_url(request)).
\* The call is answered 204 on entry when line 283 holds; otherwise it runs
\* to its first await, inside resolve_config_from_url.
Request(u) ==
  /\ nusers < MaxUser
  /\ nprocs < NProc
  /\ procs' = [procs EXCEPT ![nprocs + 1] =
                 IF NonOperational(u, current_urls, FALSE)
                 THEN [IdleProc EXCEPT !.pc = "done", !.url = u, !.status = 204]
                 ELSE [IdleProc EXCEPT !.pc = "resolve", !.url = u]]
  /\ nprocs' = nprocs + 1
  /\ nusers' = nusers + 1
  /\ UNCHANGED <<registry, installed, dirs, cache, current_urls, noops, faults>>

\* the request ends with an exception
Throw(pr) == [pr EXCEPT !.pc = "done", !.outcome = "error", !.status = 500]

\* compile_url, lines 288-289: decode the URL and compute its canonical form
Resolve(p) ==
  /\ procs[p].pc = "resolve"
  /\ \E vis \in Visible, fail \in BOOLEAN :
       \E cfg \in {resolve_config_from_url(procs[p].url, registry, vis)} :
          /\ fail => faults < MaxFaults
          /\ faults' = IF fail THEN faults + 1 ELSE faults
          /\ IF fail \/ ~cfg.ok
             THEN /\ procs' = [procs EXCEPT ![p] = Throw(procs[p])]
                  /\ dirs' = dirs
             ELSE /\ procs' = [procs EXCEPT ![p] =
                                 [procs[p] EXCEPT !.pc = "admit", !.config = cfg,
                                    !.resolved = stringify_url_from_config(cfg)]]
                  /\ dirs' = dirs \cup {cfg.proj_id}
  /\ UNCHANGED <<registry, installed, cache, current_urls, nprocs, nusers, noops>>

\* cache.get(key): the stored value, UNDEF when there is no row
CacheGet(key) == IF key \in DOMAIN cache THEN cache[key] ELSE NoBody

\* the files whose content is the empty string
EmptyFiles == {"empty.js"}

\* the text of a body is the empty string
IsEmptyString(body) ==
  body.src = <<>> \/ body.src[Len(body.src)] \in EmptyFiles

\* compile_url, lines 304-307: `if (hit)`: a stored value is truthy unless
\* it is the empty string
IsHit(key) == key \in DOMAIN cache /\ ~IsEmptyString(cache[key])

\* the two URLs compared as wholes, query included
HrefDiffers(url, resolved_url) == url # resolved_url

\* compile_url, line 293: config.url.pathname !== resolved_url.pathname
NotCanonical(url, resolved_url) == url.pathname # resolved_url.pathname

\* compile_url, lines 291-320: enter the in-flight set, redirect when the
\* request path is not canonical, answer from the cache, else start
\* installer.add (which runs to its first await)
Admit(p) ==
  /\ procs[p].pc = "admit"
  /\ LET pr == procs[p]
         c  == pr.resolved
     IN IF NotCanonical(pr.config.url, c)
        THEN /\ current_urls' = current_urls \cup {c}
             /\ procs' = [procs EXCEPT ![p] =
                            [pr EXCEPT !.pc = "done", !.outcome = "redirect",
                                       !.status = 307, !.location = c]]
        ELSE IF IsHit(c.pathname)
        THEN /\ current_urls' = current_urls \ {c}
             /\ procs' = [procs EXCEPT ![p] =
                            [pr EXCEPT !.pc = "done", !.outcome = "hit",
                                       !.status = 200, !.body = CacheGet(c.pathname)]]
        ELSE /\ current_urls' = current_urls \cup {c}
             /\ procs' = [procs EXCEPT ![p] =
                            [pr EXCEPT !.pc = "install",
                                       !.inst = [name |-> pr.config.name,
                                                 version |-> pr.config.version]]]
  /\ UNCHANGED <<registry, installed, dirs, cache, nprocs, nusers, noops, faults>>

\* a follow-up call compile_url(new Request(url), true) for each URL of
\* urls_to_fetch, in order: the call returns 204 at once when the URL is
\* in the in-flight set and otherwise runs to its first await.  Calls beyond
\* NProc are not modelled.
RECURSIVE FollowUps(_, _, _, _)
FollowUps(calls, count, urls_to_fetch, cur) ==
  Only({ IF Len(urls) = 0 THEN [procs |-> ps, n |-> n, noops |-> {}]
         ELSE IF NonOperational(urls[1], cur, TRUE)
              THEN [FollowUps(ps, n, Tail(urls), cur) EXCEPT !.noops = @ \cup {urls[1]}]
              ELSE IF n < NProc
              THEN FollowUps([ps EXCEPT ![n + 1] =
                                [IdleProc EXCEPT !.pc = "resolve", !.url = urls[1],
                                                 !.follow_up = TRUE]],
                             n + 1, Tail(urls), cur)
              ELSE FollowUps(ps, n, Tail(urls), cur) :
         ps \in {calls}, n \in {count}, urls \in {urls_to_fetch} })

\* cache.set(key, value): INSERT OR REPLACE
CacheSet(key, value) ==
  [k \in DOMAIN cache \cup {key} |-> IF k = key THEN value ELSE cache[k]]

\* the call ended by the exception of a rejected write
RejectionThrown(pr, out, wfail) ==
  IF wfail THEN [pr EXCEPT !.pc = "done", !.outcome = "error", !.status = 500]
  ELSE [pr EXCEPT !.pc = "done", !.outcome = "built", !.status = 200,
                  !.body = out, !.wrote = TRUE]

\* Cache.set, lines 29-35, and compile_url, lines 467-473: the call after
\* cache.set, whose exception is caught and logged, answers 200 with the
\* output whether the row was written or not
Returned(pr, out, wfail) ==
  [pr EXCEPT !.pc = "done", !.outcome = "built", !.status = 200,
             !.body = out, !.wrote = ~wfail]

\* compile_url, lines 460-473: store the output, leave the in-flight set,
\* start the follow-ups and answer.  The store may reject the write, which
\* cache.set swallows.  `used` counts the failures already injected in the
\* step this ends.
Finish(p, call, output, used) ==
  \E wfail \in BOOLEAN, pr \in {call}, out \in {output} :
    /\ faults + used + (IF wfail THEN 1 ELSE 0) <= MaxFaults
    /\ faults' = faults + used + (IF wfail THEN 1 ELSE 0)
    /\ cache' = IF wfail THEN cache ELSE CacheSet(pr.resolved.pathname, out)
    /\ current_urls' = current_urls \ {pr.resolved}
    /\ \E f \in {FollowUps([procs EXCEPT ![p] = Returned(pr, out, wfail)],
                             nprocs, pr.fetch, current_urls \ {pr.resolved})} :
          /\ procs' = f.procs
          /\ nprocs' = f.n
          /\ noops' = noops \cup f.noops

\* the catch of lines 455-457: the rewriting is abandoned and the output
\* stays what it was before the rewriting began
Abort(p, call, used) ==
  \E pr \in {call} : Finish(p, [pr EXCEPT !.failed = TRUE], pr.body, used)

\* where a compile_url call goes on after installer.add returned
AfterInstall(pr) == IF pr.i = 0 THEN "read" ELSE "dep_canon"

\* InstallQueue.add, lines 42-57: mkdir, readdir; return when the lockfile
\* is there, else write package.json and launch `bun install`
InstallCheck(p) ==
  /\ procs[p].pc = "install"
  /\ LET pr   == procs[p]
         proj == ProjId(pr.inst.name, pr.inst.version)
     IN /\ dirs' = dirs \cup {proj}
        /\ procs' = [procs EXCEPT ![p] =
                       [pr EXCEPT !.pc = IF proj \in installed
                                         THEN AfterInstall(pr) ELSE "installing"]]
  /\ UNCHANGED <<registry, installed, cache, current_urls, nprocs, nusers, noops, faults>>

\* InstallQueue.add, line 59: `bun install` ends.  It ends well only for a
\* package the registry has; it may fail for any.  A failure is an
\* exception: of the request when its own package was being installed, of
\* the rewriting when a dependency was.
InstallEnd(p) ==
  /\ procs[p].pc = "installing"
  /\ LET pr    == procs[p]
         proj  == ProjId(pr.inst.name, pr.inst.version)
         known == <<pr.inst.name, pr.inst.version>> \in Published
     IN \E ok \in BOOLEAN :
          /\ ok => known
          /\ (~ok /\ known) => faults < MaxFaults
          /\ IF ok
             THEN /\ installed' = installed \cup {proj}
                  /\ procs' = [procs EXCEPT ![p] = [pr EXCEPT !.pc = AfterInstall(pr)]]
                  /\ UNCHANGED <<cache, current_urls, nprocs, noops, faults>>
             ELSE /\ installed' = installed
                  /\ IF pr.i = 0
                     THEN /\ procs' = [procs EXCEPT ![p] = Throw(pr)]
                          /\ faults' = faults + (IF known THEN 1 ELSE 0)
                          /\ UNCHANGED <<cache, current_urls, nprocs, noops>>
                     ELSE Abort(p, pr, IF known THEN 1 ELSE 0)
  /\ UNCHANGED <<registry, dirs, nusers>>

\* the specifiers of the file at full_path
ContentOf(full_path) ==
  Only({ IF hits = {} THEN <<>>
         ELSE Only({ SpecifiersOf(h[2], h[3]) : h \in {CHOOSE x \in hits : TRUE} }) :
         hits \in {{ h \in KnownNames \X KnownNames \X UNION { FilesOf(k) : k \in KnownNames } :
                      /\ h[3] \in FilesOf(h[2])
                      /\ \E v \in VersionsOf(h[1]) :
                           BaseOf(ProjId(h[1], v), h[2]) \o <<"/">> \o h[3] = full_path }} })

\* the compilers registered in ./scripts/localcache/svelte
CompilerVersions == {<<"4.2.0">>}

DtsFiles == {"index.d.ts"}

\* full_path.endsWith('.d.ts')
EndsWithDts(p) == Len(p) > 0 /\ p[Len(p)] \in DtsFiles

\* import_path.startsWith('.')
StartsWithDot(s) == Len(s) > 0 /\ s[1] \in {".", ".."}

\* config.flags.svelte, as a condition
SvelteFlag(cfg) == Truthy(GetFlag(cfg.flags, "svelte"))

\* the output taken to be the compiler's whenever a compilation is wanted
CompiledAnyway(want, version, cfail) == want

\* compile_url, lines 328-345: output becomes js.code when the compilation
\* is wanted, a compiler is registered for the version and it does not
\* throw; otherwise the catch leaves output as the content read
Compiled(want, version, cfail) == want /\ version \in CompilerVersions /\ ~cfail

\* compile_url, lines 322-387: read the file, compile a component, parse
\* the module and collect its specifiers.  A missing file is an exception.
\* With nothing to rewrite the call runs on to its end.
Read(p) ==
  /\ procs[p].pc = "read"
  /\ UNCHANGED <<registry, installed, dirs, nusers>>
  /\ \E full_path \in {PathJoin(BaseOf(procs[p].config.proj_id, procs[p].config.name),
                                 procs[p].config.subpath)} :
       IF ~IsFile(full_path, installed)
       THEN /\ procs' = [procs EXCEPT ![p] = Throw(procs[p])]
            /\ UNCHANGED <<cache, current_urls, nprocs, noops, faults>>
       ELSE \E cfail \in BOOLEAN :
            \E want \in {SvelteFlag(procs[p].config) /\ EndsWithSvelte(full_path)} :
            \E compiled \in {Compiled(want, GetFlag(procs[p].config.flags, "svelte"), cfail)} :
            \E content \in {[src |-> full_path, compiled |-> compiled,
                              rewritten |-> FALSE, specs |-> ContentOf(full_path)]} :
            \E pr1 \in {[procs[p] EXCEPT !.body = content,
                                         !.failed = (want /\ ~compiled)]} :
            \E used \in {IF cfail THEN 1 ELSE 0} :
              /\ cfail => (want /\ GetFlag(procs[p].config.flags, "svelte") \in CompilerVersions)
              /\ IF EndsWithDts(full_path)
                 THEN Finish(p, pr1, content, used)
                 ELSE IF ~compiled /\ EndsWithSvelte(full_path)
                 THEN Abort(p, pr1, used)
                 ELSE IF Len(content.specs) = 0
                 THEN Finish(p, pr1, [content EXCEPT !.rewritten = TRUE], used)
                 ELSE /\ faults + used <= MaxFaults
                      /\ faults' = faults + used
                      /\ procs' = [procs EXCEPT ![p] =
                                     [pr1 EXCEPT !.pc = "rewrite", !.i = 1]]
                      /\ UNCHANGED <<cache, current_urls, nprocs, noops>>

RECURSIVE LastIndexOf(_, _, _)
\* position of the last occurrence of token t in s at or before i; 0 if none
LastIndexOf(s, t, i) ==
  IF i = 0 THEN 0
  ELSE IF s[i] = t THEN i
  ELSE LastIndexOf(s, t, i - 1)

RECURSIVE DropDotDot(_)
\* a URL path cannot climb above its root
DropDotDot(segs) ==
  IF Len(segs) > 0 /\ segs[1] = <<"..">> THEN DropDotDot(Tail(segs)) ELSE segs

\* new URL(rel, base).pathname for a relative reference rel
UrlResolve(base_url, rel) ==
  Only({ <<"/">> \o JoinWith(DropDotDot(NormSegs(
                     SplitOn(SubSeq(base, 1, LastIndexOf(base, "/", Len(base))) \o rel, "/"),
                     <<>>)), <<"/">>) :
         base \in {base_url} })

\* urls_to_fetch.add(href)
AddUrl(urls, u) ==
  IF \E k \in 1..Len(urls) : urls[k] = u THEN urls ELSE Append(urls, u)

\* the specifier left as it was written
LeftAsWritten(import_path, final_path) == import_path

\* ms.overwrite(start, end, `'${final_path}'`): what stands in the source
\* in place of the specifier import_path
Overwritten(import_path, final_path) == final_path

\* compile_url, lines 444-454: the specifier at hand got its canonical
\* path: remember the URL to fetch and the replacement, and go on with the
\* next specifier or, after the last, emit the edited source and end
Advance(p, pr, final_path, used) ==
  \E final \in {final_path} :
  \E pr1 \in {[pr EXCEPT !.outs = Append(@, Overwritten(pr.body.specs[pr.i], final)),
                          !.fetch = AddUrl(@, Url(final, <<>>)),
                          !.final_path = <<>>]} :
     IF pr.i = Len(pr.body.specs)
     THEN Finish(p, pr1, [pr.body EXCEPT !.rewritten = TRUE, !.specs = pr1.outs], used)
     ELSE /\ faults + used <= MaxFaults
          /\ faults' = faults + used
          /\ procs' = [procs EXCEPT ![p] = [pr1 EXCEPT !.pc = "rewrite", !.i = pr.i + 1]]
          /\ UNCHANGED <<cache, current_urls, nprocs, noops>>

\* the query of a resolved URL that is given no flag
WithoutSvelteFlag(cfg) == <<>>

\* compile_url, lines 395-397: the query of `resolved`, svelte=<flag> when
\* the importing request has a svelte flag
WithSvelteFlag(cfg) ==
  IF SvelteFlag(cfg)
  THEN << <<<<"svelte">>, GetFlag(cfg.flags, "svelte")>> >>
  ELSE <<>>

\* compile_url, lines 391-401: a relative specifier is resolved against the
\* request URL, keeps the svelte flag, and is canonicalized
RewriteRelative(p) ==
  /\ procs[p].pc = "rewrite"
  /\ StartsWithDot(procs[p].body.specs[procs[p].i])
  /\ LET pr       == procs[p]
         cfg      == pr.config
     IN \E vis \in Visible, fail \in BOOLEAN :
        \E resolved \in {Url(UrlResolve(cfg.url.pathname, pr.body.specs[pr.i]),
                              WithSvelteFlag(cfg))} :
        \E cfg2 \in {resolve_config_from_url(resolved, registry, vis)} :
          IF fail \/ ~cfg2.ok
          THEN /\ dirs' = dirs
               /\ Abort(p, pr, IF fail THEN 1 ELSE 0)
          ELSE /\ dirs' = dirs \cup {cfg2.proj_id}
               /\ Advance(p, pr, stringify_url_from_config(cfg2).pathname, 0)
  /\ UNCHANGED <<registry, installed, nusers>>

\* /(?:@[^/]+\/)?[^/]+/.exec(import_path): the package name of a bare
\* specifier
BareName(s) ==
  Only({ IF s[1] = "@" /\ first > 2 /\ first < Len(s)
         THEN Only({ IF second = 0 THEN s ELSE SubSeq(s, 1, second - 1) :
                     second \in {IndexOf(s, "/", first + 1)} })
         ELSE IF first = 0 THEN s
         ELSE SubSeq(s, 1, first - 1) :
         first \in {IndexOf(s, "/", 1)} })

\* path.join('/npm/', import_path).replace(`/npm/${name}`, '').replace(/^\//, '')
BareSubpath(s, n) ==
  Only({ IF Len(rest) > 0 /\ rest[1] = "/" THEN Tail(rest) ELSE rest :
         rest \in { SubSeq(joined, 3 + Len(n), Len(joined)) :
                    joined \in {PathJoin(<<"npm">>, s)} } })

\* the version range the importing manifest declares for a dependency
DeclaredRange(pkg, n) ==
  IF n \in DOMAIN pkg.dependencies THEN pkg.dependencies[n]
  ELSE IF n \in DOMAIN pkg.devDependencies THEN pkg.devDependencies[n]
  ELSE IF n \in DOMAIN pkg.peerDependencies THEN pkg.peerDependencies[n]
  ELSE <<"latest">>

\* the range with the svelte flag of the request left out
DeclaredAlways(cfg, name) == DeclaredRange(cfg.package_json, name)

\* compile_url, lines 411-419: `version`, the declared range unless the
\* package is svelte and the request has a svelte flag
VersionRange(cfg, name) ==
  IF SvelteFlag(cfg) /\ name = <<"svelte">>
  THEN GetFlag(cfg.flags, "svelte")
  ELSE DeclaredRange(cfg.package_json, name)

\* compile_url, lines 403-434: a bare specifier gets the version its
\* range resolves to, its subpath is resolved in the importing package's
\* tree, and installer.add is called for it (and runs to its first await)
RewriteBare(p) ==
  /\ procs[p].pc = "rewrite"
  /\ ~StartsWithDot(procs[p].body.specs[procs[p].i])
  /\ \E vis \in Visible, fail \in BOOLEAN :
     \E name \in {BareName(procs[p].body.specs[procs[p].i])} :
     \E pm \in {PacoteManifest(name, VersionRange(procs[p].config, name))} :
       IF fail \/ ~pm.ok
       THEN Abort(p, procs[p], IF fail THEN 1 ELSE 0)
       ELSE /\ procs' = [procs EXCEPT ![p] =
                           [procs[p] EXCEPT
                              !.pc = "install",
                              !.final_path = <<"/">> \o
                                 PathJoin(<<"npm", "/">> \o name \o <<"@">> \o pm.version,
                                   ToStr(resolve_from_pkg(
                                     fetch_package_info(registry, name, pm.version),
                                     BareSubpath(procs[p].body.specs[procs[p].i], name),
                                     BaseOf(procs[p].config.proj_id, name), vis))),
                              !.inst = [name |-> name, version |-> pm.version]]]
            /\ UNCHANGED <<cache, current_urls, nprocs, noops, faults>>
  /\ UNCHANGED <<registry, installed, dirs, nusers>>

\* compile_url, lines 436-440: the dependency's URL is canonicalized
DepCanon(p) ==
  /\ procs[p].pc = "dep_canon"
  /\ LET pr == procs[p]
     IN \E vis \in Visible, fail \in BOOLEAN :
        \E cfg2 \in {resolve_config_from_url(Url(EncodePath(pr.final_path), <<>>),
                                             registry, vis)} :
          IF fail \/ ~cfg2.ok
          THEN /\ dirs' = dirs
               /\ Abort(p, pr, IF fail THEN 1 ELSE 0)
          ELSE /\ dirs' = dirs \cup {cfg2.proj_id}
               /\ Advance(p, pr, stringify_url_from_config(cfg2).pathname, 0)
  /\ UNCHANGED <<registry, installed, nusers>>

Next ==
  \/ \E u \in RequestURLs : Request(u)
  \/ \E p \in Procs : Resolve(p)
  \/ \E p \in Procs : Admit(p)
  \/ \E p \in Procs : InstallCheck(p)
  \/ \E p \in Procs : InstallEnd(p)
  \/ \E p \in Procs : Read(p)
  \/ \E p \in Procs : RewriteRelative(p)
  \/ \E p \in Procs : RewriteBare(p)
  \/ \E p \in Procs : DepCanon(p)

Spec == Init /\ [][Next]_vars

\* ------------------------------------------------------------------------
\* The codec alone: canonicalization applied to a range of URLs, manifests
\* and filesystem states
\* ------------------------------------------------------------------------

\* the tokens of the canonical prefix /npm/a@1.0.0/
PrefixA == <<"/", "npm", "/", "a", "@", "1.0.0", "/">>

\* The pathnames canonicalization is applied to: raw ones, and ones in
\* canonical form whose !! tail holds entries of every kind.
CodecPaths ==
  { <<"/", "npm", "/", "a">>,
    PrefixA \o <<"util">>,
    <<"/", "npm", "/", "a", "/", "App.svelte">>,
    <<"/", "github", "/", "a", "@", "1", "/", "index.js">>,
    <<"/", "npm", "/", "zz">>,
    <<"/", "favicon.ico">>,
    PrefixA \o <<"index.js", "!!", "cdnv", ":", "pre.1", ";">>,
    PrefixA \o <<"App.svelte", "!!", "cdnv", ":", "pre.1", ";",
                 "s", ":", "4.2.0", ";", "md", ":", "1">>,
    PrefixA \o <<"index.js", "!!", "cdnv", ":", "old", ";", "zz", ":", "1", ";",
                 "s", ":", "4", ":", "2", ";", "md">> }

\* The query strings: flags, other parameters, and both.
CodecQueries ==
  { <<>>,
    << << <<"svelte">>, <<"4">> >> >>,
    << << <<"metadata">>, <<"1">> >> >>,
    << << <<"metadata">>, <<"0">> >> >>,
    << << <<"metadata">>, <<>> >> >>,
    << << <<"foo">>, <<"bar">> >> >>,
    << << <<"md">>, <<"1">> >>, << <<"zz">>, <<"1">> >> >>,
    << << <<"svelte">>, <<"4">> >>, << <<"metadata">>, <<"1">> >>,
       << <<"foo">>, <<"bar">> >> >> }

CodecURLs == { Url(p, q) : p \in CodecPaths, q \in CodecQueries }

\* Call 1 is a request for a URL of CodecURLs; the registry publishes `a`
\* in one of the manifest shapes; `a` is installed or not.  No lookup
\* fails (the failures are used up).
CodecInit ==
  /\ registry \in { [a |-> ManifestA(sh), b |-> ManifestB, svelte |-> ManifestSvelte] :
                      sh \in ManifestShapes }
  /\ installed \in SUBSET {ProjId(<<"a">>, <<"1.0.0">>)}
  /\ dirs = installed
  /\ cache = EmptyMap
  /\ current_urls = {}
  /\ procs \in { [p \in Procs |-> IF p = 1
                                  THEN [IdleProc EXCEPT !.pc = "resolve", !.url = u]
                                  ELSE IdleProc] : u \in CodecURLs }
  /\ nprocs = 1
  /\ nusers = 1
  /\ noops = {}
  /\ faults = MaxFaults

\* a call of compile_url started for url as call p
Start(p, url) ==
  /\ procs[p].pc = "idle"
  /\ procs' = [procs EXCEPT ![p] = [IdleProc EXCEPT !.pc = "resolve", !.url = url]]
  /\ nprocs' = nprocs + 1
  /\ nusers' = nusers + 1
  /\ UNCHANGED <<registry, installed, dirs, cache, current_urls, noops, faults>>

\* call 2: the canonical URL computed for call 1 is requested
Recanonicalize ==
  /\ procs[1].pc = "admit"
  /\ Start(2, procs[1].resolved)

\* call 3: the URL of call 1 is requested once more
Repeat ==
  /\ procs[1].pc = "admit"
  /\ Start(3, procs[1].url)

\* an installation of `a` completes (InstallQueue.add, line 59, run for
\* some request)
InstallCompletes ==
  /\ ProjId(<<"a">>, <<"1.0.0">>) \notin installed
  /\ installed' = installed \cup {ProjId(<<"a">>, <<"1.0.0">>)}
  /\ dirs' = dirs \cup {ProjId(<<"a">>, <<"1.0.0">>)}
  /\ UNCHANGED <<registry, cache, current_urls, procs, nprocs, nusers, noops, faults>>

CodecNext ==
  \/ \E p \in Procs : Resolve(p)
  \/ Recanonicalize
  \/ Repeat
  \/ InstallCompletes

CodecSpec == CodecInit /\ [][CodecNext]_vars

\* ------------------------------------------------------------------------
\* The properties
\* ------------------------------------------------------------------------

\* call p has returned a response (not thrown)
Answered(p) == procs[p].pc = "done" /\ procs[p].outcome # "error"

\* the file a config identifies
FileOf(config) == PathJoin(BaseOf(config.proj_id, config.name), config.subpath)

\* C1: of the concurrent calls of installer.add for one (name, version)
\* whose directory holds no lockfile, at most one has the package manager
\* running; the others wait for it.
C1_InstallerSingleFlight ==
  \A p, q \in Procs :
    (p # q /\ procs[p].pc = "installing" /\ procs[q].pc = "installing")
      => procs[p].inst # procs[q].inst

\* C2: of the requests for one canonical URL c that is not cached, at most
\* one builds c and writes the cache entry of c.
C2_OneBuildPerCanonicalURL ==
  \A p, q \in Procs :
    (p # q /\ procs[p].outcome = "built" /\ procs[q].outcome = "built"
       /\ procs[p].resolved = procs[q].resolved)
      => ~(procs[p].wrote /\ procs[q].wrote)

\* C3: canonicalization is idempotent: when the canonical URL computed for
\* call 1 is canonicalized in its turn (call 2), it decodes and the result
\* is that same URL.
C3_CanonicalizeIdempotent ==
  (procs[1].pc = "admit" /\ procs[2].pc \notin {"idle", "resolve"})
    => (procs[2].pc = "admit" /\ procs[2].resolved = procs[1].resolved)

\* C4 as stated: a user request u that is answered gets a 307 to
\* canonicalize(u), and that exactly when u differs from canonicalize(u),
\* or else the body made from the file canonicalize(u) identifies.
C4_RedirectIffURLDiffers ==
  \A p \in Procs :
    (Answered(p) /\ ~procs[p].follow_up) =>
      \/ /\ procs[p].status = 307
         /\ procs[p].location = procs[p].resolved
         /\ procs[p].url # procs[p].resolved
      \/ /\ procs[p].status = 200
         /\ procs[p].body.src = FileOf(procs[p].config)
         /\ procs[p].url = procs[p].resolved

\* C4 amended: a user request u that is answered gets a 307 to
\* canonicalize(u), and that exactly when the pathname of u differs from
\* the pathname of canonicalize(u), or else the body made from the file
\* canonicalize(u) identifies.
C4_RedirectIffPathDiffers ==
  \A p \in Procs :
    (Answered(p) /\ ~procs[p].follow_up) =>
      \/ /\ procs[p].status = 307
         /\ procs[p].location = procs[p].resolved
         /\ procs[p].url.pathname # procs[p].resolved.pathname
      \/ /\ procs[p].status = 200
         /\ procs[p].body.src = FileOf(procs[p].config)
         /\ procs[p].url.pathname = procs[p].resolved.pathname

\* a user request whose URL differs from its canonical URL in the query
\* alone has been answered with a body
C4_Witness ==
  \E p \in Procs :
    /\ Answered(p) /\ ~procs[p].follow_up /\ procs[p].status = 200
    /\ procs[p].url # procs[p].resolved
    /\ procs[p].body.src = FileOf(procs[p].config)

\* C5: when no call of compile_url is executing, the in-flight set is
\* empty: every call that added its canonical URL has removed it, whatever
\* its outcome.
C5_InFlightSetCleanedUp ==
  (\A p \in Procs : procs[p].pc \in {"idle", "done"}) => current_urls = {}

\* the bodies the service has returned with success or holds in its cache
Bodies ==
  { procs[p].body : p \in { q \in Procs : Answered(q) /\ procs[q].status = 200 } }
  \cup { cache[k] : k \in DOMAIN cache }

\* s is an absolute canonical URL path: /<registry>/... with a !!cdnv tail
IsCanonicalPath(s) ==
  /\ RegistryOk(s)
  /\ \E i \in 1..(Len(s) - 1) : s[i] = "!!" /\ s[i + 1] = "cdnv"

C7_SpecifierFailureIsolated ==
  \A p \in Procs :
    procs[p].outcome = "built" =>
      \A k \in 1..Len(procs[p].outs) : procs[p].body.specs[k] = procs[p].outs[k]

\* C8: a build in which compilation, parsing or the resolution of a
\* specifier failed writes no cache entry.
C8_CacheOnlySuccessfulTransform ==
  \A p \in Procs : (procs[p].pc = "done" /\ procs[p].failed) => ~procs[p].wrote

\* C9: with the registry unchanged, a URL requested twice (call 1, call 3)
\* gets the same canonical URL both times, whatever was installed in
\* between.
C9_CanonicalURLDeterministic ==
  (procs[1].pc = "admit" /\ procs[3].pc = "admit")
    => procs[3].resolved = procs[1].resolved

\* the text after the first !! of a pathname
AfterBangs(path) == SubSeq(path, IndexOf(path, "!!", 1) + 1, Len(path))

\* the keys of the entries of a !! tail that are not empty
TailKeys(path) ==
  Only({ [i \in 1..Len(es) |-> es[i][1]] :
         es \in {SelectSeq(SplitOn(AfterBangs(path), ";"), LAMBDA e : Len(e) > 0)} })

C11_TailHasNoEmptyElement ==
  \A p \in Procs :
    procs[p].pc = "admit" =>
      /\ SubSeq(AfterBangs(procs[p].resolved.pathname), 1, 3)
           = <<"cdnv", ":">> \o BUILD_VERSION
      /\ \A k \in DOMAIN SplitOn(AfterBangs(procs[p].resolved.pathname), ";") :
           Len(SplitOn(AfterBangs(procs[p].resolved.pathname), ";")[k]) > 0

\* the fields of a config that its canonical URL spells out
Spelled(config) ==
  <<config.registry, config.name, config.version, config.subpath, config.flags>>

\* C12: round trip: decoding the URL that encodes a config (call 2, given
\* the canonical URL of call 1) succeeds and yields the registry, name,
\* version, subpath and flags of that config.
C12_DecodeOfEncodeIsConfig ==
  (procs[1].pc = "admit" /\ procs[2].pc \notin {"idle", "resolve"})
    => (procs[2].pc = "admit" /\ Spelled(procs[2].config) = Spelled(procs[1].config))

\* the text before the first !! of a pathname
BeforeBangs(path) == SubSeq(path, 1, IndexOf(path, "!!", 1) - 1)

\* the parameters of a query that are not flags
NonFlagParams(q) ==
  SelectSeq(q, LAMBDA kv : kv[1] \notin {<<"svelte">>, <<"metadata">>})

\* C13: for a request with non-flag query parameters, the path of the
\* canonical URL is /<registry>/<name>@<version>/<subpath> followed by the
\* !! tail (the query is not in the path), its query holds exactly the
\* non-flag parameters, and the decoder recognizes the URL as canonical.
C13_QueryKeptOutOfPath ==
  \A p \in Procs :
    (procs[p].pc = "admit" /\ NonFlagParams(procs[p].url.query) # <<>>) =>
      /\ BeforeBangs(procs[p].resolved.pathname)
           = EncodePath(<<"/">> \o procs[p].config.registry \o <<"/">>
               \o PathJoin(procs[p].config.name \o <<"@">> \o procs[p].config.version,
                           procs[p].config.subpath))
      /\ procs[p].resolved.query = NonFlagParams(procs[p].url.query)
      /\ PROCESSED_URL_REGEX(procs[p].resolved.pathname).ok

\* ------------------------------------------------------------------------
\* The prefetch cascade on a cyclic import graph: x.js imports ./y.js and
\* y.js imports ./x.js
\* ------------------------------------------------------------------------

\* The requests users send for the cycle.
CascadeURLs == { Url(PrefixA \o <<"x.js", "!!", "cdnv", ":", "pre.1", ";">>, <<>>) }

\* a call of compile_url that has returned or thrown
Ended(pr) == pr.pc = "done"

\* The calls that have ended are forgotten, the others keep their order,
\* and the count of the environment's failures starts afresh: what has
\* failed may fail again.
Forget ==
  /\ \E p \in Procs : Ended(procs[p])
  /\ \E live \in {SelectSeq(procs, LAMBDA pr : pr.pc \notin {"idle", "done"})} :
       /\ procs' = [p \in Procs |-> IF p <= Len(live) THEN live[p] ELSE IdleProc]
       /\ nprocs' = Len(live)
  /\ faults' = 0
  /\ UNCHANGED <<registry, installed, dirs, cache, current_urls, nusers, noops>>

CascadeNext ==
  \/ \E u \in CascadeURLs : Request(u)
  \/ \E p \in Procs : Resolve(p)
  \/ \E p \in Procs : Admit(p)
  \/ \E p \in Procs : InstallCheck(p)
  \/ \E p \in Procs : InstallEnd(p)
  \/ \E p \in Procs : Read(p)
  \/ \E p \in Procs : RewriteRelative(p)
  \/ Forget

\* Every call that can take a step eventually takes one.
CascadeSpec == Init /\ [][CascadeNext]_vars /\ WF_vars(CascadeNext)

\* C14: the cascade of follow-up requests that a request starts on a cyclic
\* import graph stops: from some moment on no call of compile_url is
\* running, whatever the environment does (a cache write may be rejected).
C14_CascadeStops ==
  <>[](\A p \in Procs : procs[p].pc \in {"idle", "done"})


\* C15: a follow-up whose URL is in the in-flight set is answered 204 on
\* entry and does nothing else: it starts no call (so it decodes, installs,
\* reads and stores nothing) and its URL is still in the in-flight set
\* afterwards; and no user-originated call is ever answered 204.
C15_FollowUpInFlightIsNoop ==
  [][ /\ \A u \in noops' \ noops :
           /\ u \in current_urls /\ u \in current_urls'
           /\ \A p \in Procs :
                (procs[p].pc = "idle" /\ procs'[p].pc # "idle") => procs'[p].url # u
      /\ \A p \in Procs : procs'[p].status = 204 => procs'[p].follow_up ]_vars

\* a follow-up has been answered 204 while its URL was in the in-flight
\* set, where it still is, by a user-originated call that was answered 200
C15_Witness ==
  \E u \in noops :
    /\ u \in current_urls
    /\ \E p \in Procs :
         /\ ~procs[p].follow_up
         /\ procs[p].pc = "done" /\ procs[p].status = 200
         /\ \E k \in 1..Len(procs[p].fetch) : procs[p].fetch[k] = u


\* the pathname matches the canonical or the raw grammar
MatchesGrammar(path) == PROCESSED_URL_REGEX(path).ok \/ URL_REGEX(path).ok

C17_MissingFileIsNotFound ==
  \A p \in Procs :
    ( /\ procs[p].pc = "done"
      /\ procs[p].config.ok
      /\ ~NotCanonical(procs[p].url, procs[p].resolved)
      /\ procs[p].config.proj_id \in installed
      /\ ~IsFile(FileOf(procs[p].config), installed) ) =>
      /\ procs[p].status \in 400..499
      /\ procs[p].resolved.pathname \notin DOMAIN cache
      /\ procs[p].resolved \notin current_urls


\* ------------------------------------------------------------------------
\* Requests for a component: App.svelte with the svelte flag in the tail,
\* at a version with a registered compiler and at one without
\* ------------------------------------------------------------------------

ComponentURLs ==
  { Url(PrefixA \o <<"App.svelte", "!!", "cdnv", ":", "pre.1", ";", "s", ":", v>>, <<>>) :
      v \in {"4.2.0", "3.0.0"} }

ComponentNext ==
  \/ \E u \in ComponentURLs : Request(u)
  \/ \E p \in Procs : Resolve(p)
  \/ \E p \in Procs : Admit(p)
  \/ \E p \in Procs : InstallCheck(p)
  \/ \E p \in Procs : InstallEnd(p)
  \/ \E p \in Procs : Read(p)
  \/ \E p \in Procs : RewriteRelative(p)
  \/ \E p \in Procs : RewriteBare(p)
  \/ \E p \in Procs : DepCanon(p)

ComponentSpec == Init /\ [][ComponentNext]_vars

\* call p takes, in this step, the step that reads a component for which
\* the svelte flag is set
ReadsComponent(p) ==
  /\ procs[p].pc = "read"
  /\ procs'[p].pc # "read"
  /\ IsFile(FileOf(procs[p].config), installed)
  /\ EndsWithSvelte(FileOf(procs[p].config))
  /\ SvelteFlag(procs[p].config)

\* C18: when the compilation of a component fails in that step (the
\* compiler threw, or none is registered for the version) the call is
\* answered 200 with the source of the file as it was read, neither
\* compiled nor rewritten.
C18_CompileFailureServesSource ==
  [][ \A p \in Procs :
        ( /\ ReadsComponent(p)
          /\ \/ procs'[p].failed
             \/ GetFlag(procs[p].config.flags, "svelte") \notin CompilerVersions ) =>
          /\ procs'[p].pc = "done"
          /\ procs'[p].status = 200
          /\ procs'[p].body.src = FileOf(procs[p].config)
          /\ ~procs'[p].body.compiled
          /\ ~procs'[p].body.rewritten ]_vars

\* call p has been answered with the source of a component
SourceServed(p) ==
  /\ procs[p].pc = "done"
  /\ procs[p].status = 200
  /\ procs[p].outcome = "built"
  /\ EndsWithSvelte(procs[p].body.src)
  /\ ~procs[p].body.compiled

\* one call met a compiler that threw, another a version without compiler
C18_Witness ==
  \E p, q \in Procs :
    /\ SourceServed(p) /\ GetFlag(procs[p].config.flags, "svelte") \in CompilerVersions
    /\ SourceServed(q) /\ GetFlag(procs[q].config.flags, "svelte") \notin CompilerVersions


\* ------------------------------------------------------------------------
\* Requests for a module that imports from a sibling package by a relative
\* path: sibling.js imports ../b/index.js
\* ------------------------------------------------------------------------

SiblingURLs ==
  { Url(PrefixA \o <<"sibling.js", "!!", "cdnv", ":", "pre.1", ";">>, <<>>),
    Url(<<"/", "npm", "/", "b", "@", "1.0.0", "/", "index.js",
          "!!", "cdnv", ":", "pre.1", ";">>, <<>>) }

SiblingNext ==
  \/ \E u \in SiblingURLs : Request(u)
  \/ \E p \in Procs : Resolve(p)
  \/ \E p \in Procs : Admit(p)
  \/ \E p \in Procs : InstallCheck(p)
  \/ \E p \in Procs : InstallEnd(p)
  \/ \E p \in Procs : Read(p)
  \/ \E p \in Procs : RewriteRelative(p)

SiblingSpec == Init /\ [][SiblingNext]_vars

\* packages/<name>@<version> of the package a canonical path names
PackageOf(path) ==
  Only({ ProjId(m.name, m.version) : m \in {PROCESSED_URL_REGEX(path)} })

\* C19: for every call answered 200, built or from the cache, the package of
\* its canonical URL and the package of every specifier rewritten into its
\* body have been installed: packages/<name>@<version> holds the lockfile.
C19_ServedPackagesInstalled ==
  \A p \in Procs :
    (procs[p].pc = "done" /\ procs[p].status = 200) =>
      /\ PackageOf(procs[p].resolved.pathname) \in installed
      /\ procs[p].body.rewritten =>
           \A k \in 1..Len(procs[p].body.specs) :
             PackageOf(procs[p].body.specs[k]) \in installed


\* an installation of packages/proj has failed (the call that ran it ended
\* with the exception) and the directory holds no lockfile
InstallFailed(proj) ==
  /\ proj \notin installed
  /\ \E p \in Procs :
       /\ procs[p].pc = "done"
       /\ procs[p].outcome = "error"
       /\ procs[p].inst # NoDep
       /\ ProjId(procs[p].inst.name, procs[p].inst.version) = proj

\* a call for url is running
InFlight(url) ==
  \E q \in Procs : procs[q].pc \notin {"idle", "done"} /\ procs[q].resolved = url

\* C20: once an installation of a package has failed, and as long as its
\* lockfile is absent, a call that needs the package runs the installer
\* again: a user-originated call that reaches the installer launches the
\* package manager, and a follow-up for a URL of the package is not turned
\* away on entry (unless a call for that URL is running).
C20_FailedInstallIsRetried ==
  [][ \A proj \in dirs :
        InstallFailed(proj) =>
          /\ \A q \in Procs :
               ( /\ procs[q].pc = "install"
                 /\ procs'[q].pc # "install"
                 /\ ProjId(procs[q].inst.name, procs[q].inst.version) = proj ) =>
                 procs'[q].pc = "installing"
          /\ \A u \in noops' \ noops :
               PackageOf(u.pathname) = proj => InFlight(u) ]_vars


\* ------------------------------------------------------------------------
\* Requests for a module whose file is empty
\* ------------------------------------------------------------------------

EmptyURLs == { Url(PrefixA \o <<"empty.js", "!!", "cdnv", ":", "pre.1", ";">>, <<>>) }

EmptyNext ==
  \/ \E u \in EmptyURLs : Request(u)
  \/ \E p \in Procs : Resolve(p)
  \/ \E p \in Procs : Admit(p)
  \/ \E p \in Procs : InstallCheck(p)
  \/ \E p \in Procs : InstallEnd(p)
  \/ \E p \in Procs : Read(p)

EmptySpec == Init /\ [][EmptyNext]_vars

\* C21: a call for a canonical URL that has a row in the cache is answered
\* with the stored value, whatever it is, in the step that looks the row
\* up: it goes on to no install, read, compile or rewrite, writes nothing
\* to the cache and starts no follow-up.
C21_StoredEntryIsServed ==
  [][ \A p \in Procs :
        ( /\ procs[p].pc = "admit"
          /\ procs'[p].pc # "admit"
          /\ ~NotCanonical(procs[p].config.url, procs[p].resolved)
          /\ procs[p].resolved.pathname \in DOMAIN cache ) =>
          /\ procs'[p].pc = "done"
          /\ procs'[p].status = 200
          /\ procs'[p].body = cache[procs[p].resolved.pathname]
          /\ cache' = cache
          /\ nprocs' = nprocs ]_vars


\* call p ends, in this step, a build whose cache write was rejected
EndsUnstored(p) ==
  /\ \/ procs[p].pc \in {"rewrite", "dep_canon"}
     \/ procs[p].pc = "read" /\ IsFile(FileOf(procs[p].config), installed)
  /\ procs'[p].pc = "done"
  /\ ~procs'[p].wrote

\* C22: a build whose cache write is rejected is answered 200 with the
\* body it computed (the rewritten one when nothing else failed), its URL
\* leaves the in-flight set, and each URL it collected is submitted as a
\* follow-up (answered 204, or started as a call while the model has room);
\* and two builds of one URL in which nothing but the write failed have the
\* same body.
C22_RejectedWriteLeavesRequestIntact ==
  [][ /\ \A p \in Procs :
           EndsUnstored(p) =>
             /\ procs'[p].status = 200
             /\ procs'[p].body # NoBody
             /\ ~procs'[p].failed => procs'[p].body.rewritten
             /\ procs[p].resolved \notin current_urls'
             /\ cache' = cache
             /\ \A k \in 1..Len(procs'[p].fetch) :
                  \/ procs'[p].fetch[k] \in noops'
                  \/ \E q \in Procs : /\ procs[q].pc = "idle"
                                      /\ procs'[q].url = procs'[p].fetch[k]
                                      /\ procs'[q].follow_up
                  \/ nprocs' = NProc
      /\ \A p, q \in Procs :
           ( /\ procs'[p].outcome = "built" /\ procs'[q].outcome = "built"
             /\ procs'[p].resolved = procs'[q].resolved
             /\ ~procs'[p].wrote
             /\ ~procs'[p].failed /\ ~procs'[q].failed ) =>
             procs'[p].body = procs'[q].body ]_vars

\* a build whose write was rejected has been answered, and a later call for
\* the same URL has built the body again
C22_Witness ==
  \E p, q \in Procs :
    /\ p < q
    /\ procs[p].outcome = "built" /\ ~procs[p].wrote
    /\ procs[q].outcome = "built"
    /\ procs[q].resolved = procs[p].resolved
    /\ Len(procs[p].fetch) > 0
    /\ procs[q].body = procs[p].body


\* ------------------------------------------------------------------------
\* A package whose `browser` map disables its root entry
\* ------------------------------------------------------------------------

\* the registry serves `a` with browser: {".": false} and no svelte or
\* exports field
RootOffInit ==
  /\ registry = [a |-> ManifestA("browserFalse"), b |-> ManifestB, svelte |-> ManifestSvelte]
  /\ installed = {}
  /\ dirs = {}
  /\ cache = EmptyMap
  /\ current_urls = {}
  /\ procs = [p \in Procs |-> IdleProc]
  /\ nprocs = 0
  /\ nusers = 0
  /\ noops = {}
  /\ faults = 0

\* the package root
RootURL == Url(<<"/", "npm", "/", "a">>, <<>>)

\* the Location headers of the redirects answered so far
Redirections ==
  { procs[p].location : p \in { q \in Procs : procs[q].status = 307 } }

\* users ask for the package root and follow the redirects they are given;
\* another module of the package is requested alongside
RootOffNext ==
  \/ \E u \in {RootURL} \cup Redirections \cup EmptyURLs : Request(u)
  \/ \E p \in Procs : Resolve(p)
  \/ \E p \in Procs : Admit(p)
  \/ \E p \in Procs : InstallCheck(p)
  \/ \E p \in Procs : InstallEnd(p)
  \/ \E p \in Procs : Read(p)

RootOffSpec == RootOffInit /\ [][RootOffNext]_vars

\* call p asked for the URL the root request was redirected to
FollowsRootRedirect(p) ==
  \E q \in Procs :
    /\ procs[q].url = RootURL
    /\ procs[q].status = 307
    /\ procs[p].url = procs[q].location

\* C23: with browser["."] === false and no svelte or exports field, the
\* request for the package root is redirected to a canonical URL, and the
\* request for that URL is answered 200 with the body
\* `data:text/javascript,export {}`.
C23_DisabledRootServesEmptyModule ==
  \A p \in Procs :
    /\ ( procs[p].pc = "done" /\ procs[p].url = RootURL /\ procs[p].outcome # "error" ) =>
         procs[p].status = 307
    /\ ( procs[p].pc = "done" /\ FollowsRootRedirect(p) ) =>
         /\ procs[p].status = 200
         /\ procs[p].body.src = EmptyModuleURL


\* ------------------------------------------------------------------------
\* The order of the steps of the subpath resolver
\* ------------------------------------------------------------------------

\* the target each step of resolve_from_pkg produces by itself, UNDEF when
\* it produces none: the svelte field, the exports map, the legacy fields,
\* the filesystem probe, the `browser` map, the subpath
StepTargets(pkg, subpath, base, inst) ==
  LET dot == subpath = <<".">>
      ex == ResolveExports(pkg, subpath)
      legacy == ResolveLegacy(pkg, <<"browser", "module", "main">>)
      entry == ToEntry(pkg.name, subpath, TRUE)
  IN << IF dot THEN pkg.svelte ELSE UNDEF,
        IF pkg.hasExports /\ ~ex.threw THEN ex.target ELSE UNDEF,
        IF ~dot THEN UNDEF
        ELSE IF legacy.kind # "object" THEN legacy.str
        ELSE IF <<".">> \notin DOMAIN pkg.browserMap
             THEN ResolveLegacy(pkg, <<"module", "main">>).str
        ELSE IF pkg.browserMap[<<".">>] = FALSEVAL THEN EmptyModuleURL
        ELSE pkg.browserMap[<<".">>],
        ProbeFrom(base, subpath, 1, inst),
        IF pkg.browserKind = "object" /\ entry \in DOMAIN pkg.browserMap
        THEN ResolveLegacyBrowser(pkg, subpath) ELSE UNDEF,
        subpath >>

RECURSIVE FirstTarget(_)
\* the first of the targets that is defined
FirstTarget(targets) ==
  IF Len(targets) = 1 \/ targets[1] # UNDEF THEN targets[1]
  ELSE FirstTarget(Tail(targets))

\* the subpath a request asks for: the extra group, '.' when it is absent
AskedSubpath(url) ==
  Only({ IF m.extra = UNDEF THEN <<".">> ELSE m.extra : m \in {MatchURL(url.pathname)} })

\* call p decodes its URL in this step
Decodes(p) == procs[p].pc = "resolve" /\ procs'[p].pc = "admit"

\* C24: the subpath a decoded request gets is the target of the first step
\* of the resolver that produces one, in the order svelte field, exports
\* map, legacy fields, filesystem probe, browser map, subpath unchanged.
C24_FirstSuccessfulStepWins ==
  [][ \A p \in Procs :
        Decodes(p) =>
          \E pkg \in {procs'[p].config.package_json} :
            procs'[p].config.subpath =
              FirstTarget(StepTargets(pkg, AskedSubpath(procs[p].url),
                                      BaseOf(ProjId(pkg.name, pkg.version),
                                             procs'[p].config.name),
                                      installed)) ]_vars


\* the exports map of the manifest has no target for the subpath asked for
ExportsGiveNothing(pkg, subpath) ==
  pkg.hasExports /\ ResolveExports(pkg, subpath).target = UNDEF

\* C25: when the manifest has an exports map that yields no target for the
\* subpath asked for, the decoding does not fail and the subpath it gets is
\* not empty: it is the target of the first of the legacy, filesystem and
\* browser-map steps that produces one, else the subpath asked for.
C25_ExportsMissFallsThrough ==
  [][ \A p \in Procs :
        ( /\ procs[p].pc = "resolve"
          /\ procs'[p].pc # "resolve"
          /\ MatchURL(procs[p].url.pathname).name = <<"a">>
          /\ \E pkg \in {registry.a} : ExportsGiveNothing(pkg, AskedSubpath(procs[p].url)) ) =>
          /\ procs'[p].pc = "admit"
          /\ \E pkg \in {procs'[p].config.package_json} :
               /\ procs'[p].config.subpath \notin {<<>>, <<"undefined">>}
               /\ procs'[p].config.subpath =
                    FirstTarget(SubSeq(StepTargets(pkg, AskedSubpath(procs[p].url),
                                                   BaseOf(ProjId(pkg.name, pkg.version),
                                                          procs'[p].config.name),
                                                   installed), 3, 6)) ]_vars


\* C26: the resolver gives every request a defined path: no decoded request
\* has the text `undefined` for a subpath, and its canonical URL does not
\* hold `undefined` after the package and version.
C26_SubpathIsDefined ==
  \A p \in Procs :
    procs[p].config.ok =>
      /\ procs[p].config.subpath # <<"undefined">>
      /\ \A k \in 1..Len(procs[p].resolved.pathname) - 1 :
           ~( /\ procs[p].resolved.pathname[k] = "/"
              /\ procs[p].resolved.pathname[k + 1] = "undefined" )


\* ------------------------------------------------------------------------
\* A module importing b and svelte, from a package that declares them in
\* every way
\* ------------------------------------------------------------------------

\* where the manifest of `a` declares b, and with which ranges
Declarations == {"dep", "dev", "peer", "nowhere", "depdev", "devpeer"}

\* the manifest of `a`: b declared as d says, svelte as a peer at a range
\* the registry has no version for
DepsManifest(d) ==
  LET base == [BareManifest(<<"a">>, <<"1.0.0">>) EXCEPT !.main = <<"index.js">>]
      sv == (<<"svelte">> :> <<"3">>)
      old == (<<"b">> :> <<"0">>)
      new == (<<"b">> :> <<"1">>)
  IN CASE d = "dep" -> [base EXCEPT !.dependencies = old, !.peerDependencies = sv]
       [] d = "dev" -> [base EXCEPT !.devDependencies = old, !.peerDependencies = sv]
       [] d = "peer" -> [base EXCEPT !.peerDependencies = old @@ sv]
       [] d = "nowhere" -> [base EXCEPT !.peerDependencies = sv]
       [] d = "depdev" -> [base EXCEPT !.dependencies = new, !.devDependencies = old,
                                       !.peerDependencies = sv]
       [] d = "devpeer" -> [base EXCEPT !.devDependencies = new,
                                        !.peerDependencies = old @@ sv]

\* the module is requested without a svelte flag and with one
DepsURLs ==
  { Url(PrefixA \o <<"deps.js", "!!", "cdnv", ":", "pre.1", ";">>, <<>>),
    Url(PrefixA \o <<"deps.js", "!!", "cdnv", ":", "pre.1", ";", "s", ":", "4.2.0">>, <<>>) }

\* Call 1 is the one request users send, for a URL of DepsURLs.
DepsInit ==
  /\ registry \in { [a |-> DepsManifest(d), b |-> ManifestB, svelte |-> ManifestSvelte] :
                      d \in Declarations }
  /\ installed = {}
  /\ dirs = {}
  /\ cache = EmptyMap
  /\ current_urls = {}
  /\ procs \in { [p \in Procs |-> IF p = 1
                                  THEN [IdleProc EXCEPT !.pc = "resolve", !.url = u]
                                  ELSE IdleProc] : u \in DepsURLs }
  /\ nprocs = 1
  /\ nusers = MaxUser
  /\ noops = {}
  /\ faults = 0

DepsNext ==
  \/ \E p \in Procs : Resolve(p)
  \/ \E p \in Procs : Admit(p)
  \/ \E p \in Procs : InstallCheck(p)
  \/ \E p \in Procs : InstallEnd(p)
  \/ \E p \in Procs : Read(p)
  \/ \E p \in Procs : RewriteBare(p)
  \/ \E p \in Procs : DepCanon(p)

DepsSpec == DepsInit /\ [][DepsNext]_vars


\* the range the claim gives a bare specifier of package n in a request
\* with config cfg
ClaimedRange(cfg, n) ==
  LET pkg == cfg.package_json
      flag == GetFlag(cfg.flags, "svelte")
  IN IF n = <<"svelte">> /\ flag # UNDEF /\ flag # <<>> THEN flag
     ELSE IF n \in DOMAIN pkg.dependencies THEN pkg.dependencies[n]
     ELSE IF n \in DOMAIN pkg.devDependencies THEN pkg.devDependencies[n]
     ELSE IF n \in DOMAIN pkg.peerDependencies THEN pkg.peerDependencies[n]
     ELSE <<"latest">>

\* path is /npm/<n>@<v> or begins with /npm/<n>@<v>/
CarriesVersion(path, n, v) ==
  \E pre \in {<<"/", "npm", "/">> \o n \o <<"@">> \o v} :
    /\ Len(path) >= Len(pre)
    /\ SubSeq(path, 1, Len(pre)) = pre
    /\ Len(path) > Len(pre) => path[Len(pre) + 1] = "/"

\* C27: a bare specifier is looked up in the registry at the first range
\* declared for its package among dependencies, devDependencies and
\* peerDependencies, else `latest`, and at the flagged version when the
\* package is svelte and the request has a svelte flag; when the registry
\* resolves that range and nothing fails, the package is installed at the
\* resolved version and the path written in place of the specifier carries
\* that version.
C27_BareSpecifierVersion ==
  [][ \A p \in Procs :
        /\ ( /\ procs[p].pc = "rewrite"
             /\ procs'[p] # procs[p]
             /\ ~StartsWithDot(procs[p].body.specs[procs[p].i])
             /\ faults' = faults ) =>
             \E n \in {BareName(procs[p].body.specs[procs[p].i])} :
             \E pm \in {PacoteManifest(n, ClaimedRange(procs[p].config, n))} :
               IF pm.ok
               THEN /\ procs'[p].pc = "install"
                    /\ procs'[p].inst = [name |-> n, version |-> pm.version]
                    /\ CarriesVersion(procs'[p].final_path, n, pm.version)
               ELSE procs'[p].pc = "done" /\ procs'[p].failed
        /\ ( /\ procs[p].pc = "dep_canon"
             /\ Len(procs'[p].outs) > Len(procs[p].outs) ) =>
             CarriesVersion(procs'[p].outs[Len(procs'[p].outs)],
                            procs[p].inst.name, procs[p].inst.version) ]_vars

\* a request with a svelte flag has rewritten b to the older version its
\* manifest declares and svelte to the flagged version
C27_Witness ==
  \E p \in Procs :
    /\ procs[p].pc = "done"
    /\ procs[p].body.rewritten
    /\ Len(procs[p].body.specs) = 2
    /\ CarriesVersion(procs[p].body.specs[1], <<"b">>, <<"0.9.0">>)
    /\ CarriesVersion(procs[p].body.specs[2], <<"svelte">>, <<"4.2.0">>)
    /\ registry.a.peerDependencies[<<"svelte">>] = <<"3">>


\* ------------------------------------------------------------------------
\* A module with a relative import, requested with and without a svelte
\* flag and from either registry
\* ------------------------------------------------------------------------

FlaggedURLs ==
  { Url(PrefixA \o <<"x.js", "!!", "cdnv", ":", "pre.1", ";">> \o tail, <<>>) :
      tail \in {<<>>, <<"s", ":", "4.2.0">>, <<"s", ":", "4">>} }
  \cup { Url(<<"/", "github", "/", "a", "@", "1.0.0", "/", "x.js",
               "!!", "cdnv", ":", "pre.1", ";">>, <<>>) }

\* Call 1 is the one request users send, for a URL of FlaggedURLs.
FlaggedInit ==
  /\ registry = [a |-> ManifestA("main"), b |-> ManifestB, svelte |-> ManifestSvelte]
  /\ installed = {}
  /\ dirs = {}
  /\ cache = EmptyMap
  /\ current_urls = {}
  /\ procs \in { [p \in Procs |-> IF p = 1
                                  THEN [IdleProc EXCEPT !.pc = "resolve", !.url = u]
                                  ELSE IdleProc] : u \in FlaggedURLs }
  /\ nprocs = 1
  /\ nusers = MaxUser
  /\ noops = {}
  /\ faults = 0

FlaggedNext ==
  \/ \E p \in Procs : Resolve(p)
  \/ \E p \in Procs : Admit(p)
  \/ \E p \in Procs : InstallCheck(p)
  \/ \E p \in Procs : InstallEnd(p)
  \/ \E p \in Procs : Read(p)
  \/ \E p \in Procs : RewriteRelative(p)

FlaggedSpec == FlaggedInit /\ [][FlaggedNext]_vars

\* call p writes, in this step, a path in place of a relative specifier
RewritesRelative(p) ==
  /\ procs[p].pc = "rewrite"
  /\ StartsWithDot(procs[p].body.specs[procs[p].i])
  /\ Len(procs'[p].outs) > Len(procs[p].outs)

\* path is canonical and names the registry, package and version of cfg
SamePackage(path, cfg) ==
  \E m \in {PROCESSED_URL_REGEX(path)} :
    /\ m.ok
    /\ m.registry = cfg.registry
    /\ m.name = cfg.name
    /\ m.version = cfg.version

\* the svelte flag in the !! tail of a canonical path, UNDEF when it has none
SvelteOf(path) == GetFlag(TailFlags(path), "svelte")

\* C28 (as stated): the path written in place of a relative specifier is
\* canonical with the registry, name and exact version of the importing
\* request, and carries the svelte flag value of the importing request when
\* that request has one.
C28_RelativeKeepsPackageAndFlag ==
  [][ \A p \in Procs :
        RewritesRelative(p) =>
          \E out \in {procs'[p].outs[Len(procs'[p].outs)]} :
            /\ SamePackage(out, procs[p].config)
            /\ SvelteFlag(procs[p].config) =>
                 SvelteOf(out) = GetFlag(procs[p].config.flags, "svelte") ]_vars

\* C28 (amended): the path written in place of a relative specifier is
\* canonical with the registry, name and exact version of the importing
\* request; when that request has a svelte flag the path carries the
\* version the registry resolves that flag value to, which is the same
\* value when the flag is an exact version; without one, the path of a
\* plain module carries none.
C28_RelativeKeepsPackageAndResolvedFlag ==
  [][ \A p \in Procs :
        RewritesRelative(p) =>
          \E out \in {procs'[p].outs[Len(procs'[p].outs)]} :
          \E flag \in {GetFlag(procs[p].config.flags, "svelte")} :
            /\ SamePackage(out, procs[p].config)
            /\ IF SvelteFlag(procs[p].config)
               THEN /\ SvelteOf(out) = PacoteManifest(<<"svelte">>, flag).version
                    /\ IsExactVersion(flag[1]) => SvelteOf(out) = flag
               ELSE SvelteOf(out) = UNDEF ]_vars

\* relative specifiers have been rewritten for a request whose svelte flag
\* is a range and for one whose flag is an exact version
C28_Witness ==
  /\ procs[1].outcome = "built"
  /\ procs[1].config.flags = << <<"svelte", <<"4">> >> >>
  /\ procs[1].body.rewritten
  /\ SvelteOf(procs[1].body.specs[1]) = <<"4.2.0">>
  /\ \E p \in Procs :
       /\ p > 1
       /\ procs[p].outcome = "built"
       /\ procs[p].body.rewritten
       /\ procs[p].config.flags = << <<"svelte", <<"4.2.0">> >> >>
       /\ SvelteOf(procs[p].body.specs[1]) = <<"4.2.0">>


\* resolve_from_pkg, lines 256-266: the call reaches the loop that stats
\* the candidates under pkg_url_base (no earlier step returned)
ReachesProbe(pkg, subpath) ==
  /\ ~(pkg.svelte # UNDEF /\ subpath = <<".">>)
  /\ ~(pkg.hasExports /\ ~ResolveExports(pkg, subpath).threw)
  /\ subpath # <<".">>

\* C29: a request for a canonical URL that misses the cache reads its file
\* only when the installation of its package has completed, and the
\* canonicalization that comes first does not probe the install directory
\* of a package whose installation has not completed.
C29_InstallBeforeAnyRead ==
  [][ \A p \in Procs :
        /\ ( procs'[p].pc = "read" /\ procs[p].pc # "read" ) =>
             procs'[p].config.proj_id \in installed'
        /\ ( /\ Decodes(p)
             /\ MatchURL(procs[p].url.pathname).processed
             /\ ReachesProbe(procs'[p].config.package_json,
                             AskedSubpath(procs[p].url)) ) =>
             procs'[p].config.proj_id \in installed ]_vars


\* the entry `alias:value` of a !! tail read as the claim reads it: the
\* value is everything written after the first ':'
WrittenOption(flags, option) ==
  LET parts == SplitOn(option, ":")
      val == IF Len(parts) = 1 THEN UNDEF ELSE JoinWith(Tail(parts), <<":">>)
  IN IF parts[1] = <<"s">> THEN PutFlag(flags, "svelte", val)
     ELSE IF parts[1] = <<"md">> THEN PutFlag(flags, "metadata", val)
     ELSE flags

RECURSIVE WrittenOptions(_, _)
WrittenOptions(flags, options) ==
  IF Len(options) = 0 THEN flags
  ELSE WrittenOptions(WrittenOption(flags, options[1]), Tail(options))

\* the recognized flags written in the !! tail of a canonical path
WrittenFlags(path) ==
  WrittenOptions(NoFlags, SplitOn(SplitOn(path, "!!")[2], ";"))

\* the entries of a flags object
Entries(flags) == { flags[i] : i \in 1..Len(flags) }

\* C30: a request whose path matches the canonical grammar is decoded with
\* the version written in the path and no lookup of the package's version
\* in the registry, and its flags are the recognized aliases of the !! tail
\* with the values written there.
C30_CanonicalDecodedVerbatim ==
  [][ \A p \in Procs :
        ( Decodes(p) /\ PROCESSED_URL_REGEX(procs[p].url.pathname).ok ) =>
          /\ procs'[p].config.version =
               PROCESSED_URL_REGEX(procs[p].url.pathname).version
          /\ ManifestLookup(procs[p].url) = {}
          /\ Entries(procs'[p].config.flags) =
               Entries(WrittenFlags(procs[p].url.pathname)) ]_vars


\* C31: a row of the cache never changes its value once written, whatever
\* builds of its URL run concurrently and whatever lookups fail; and all
\* the calls answered 200 for one canonical URL have the same body.
C31_CachedContentStable ==
  [][ /\ \A key \in DOMAIN cache :
           key \in DOMAIN cache' /\ cache'[key] = cache[key]
      /\ \A p, q \in Procs :
           ( /\ procs'[p].status = 200 /\ procs'[q].status = 200
             /\ procs'[p].resolved = procs'[q].resolved ) =>
             procs'[p].body = procs'[q].body ]_vars
====
